---- MODULE Spec2Model ----
(***************************************************************************)
(* gemma-cli: the JSON-Schema -> genai.Schema translation                  *)
(* (convertJSONSchemaToGenaiSchema) and the request/response pipeline      *)
(* (run), modelled from src/main.go.                                       *)
(***************************************************************************)
EXTENDS Integers, Sequences, FiniteSets, TLC

VARIABLES
    pc,             \* position of the process inside main/run
    config,         \* Config: SchemaFile and OutputFile ("" when the flag is absent)
    schemaFile,     \* what the file named by -schema holds on disk
    schema,         \* run's local `schema` (map[string]any)
    client,         \* the genai client: "none", "open" or "closed"
    mimeType,       \* model.ResponseMIMEType
    genaiSchema,    \* run's local genaiSchema, the pointer the conversion returned
    responseSchema, \* model.ResponseSchema
    err,            \* the error run returns (<<>> is nil)
    generateCalls,  \* number of GenerateContent invocations
    resp,           \* the *GenerateContentResponse GenerateContent returned
    responseText,   \* run's local responseText
    jsonResponse,   \* run's local jsonResponse
    formattedJSON,  \* run's local formattedJSON
    outputFile,     \* the file named by -output on disk
    stdout,         \* what has been printed to standard output
    exitCode        \* the process exit status (-1 while running)

vars == <<pc, config, schemaFile, schema, client, mimeType, genaiSchema,
          responseSchema, err,
          generateCalls, resp, responseText, jsonResponse, formattedJSON,
          outputFile, stdout, exitCode>>

----------------------------------------------------------------------------
(* Go values of type `any`, tagged by their dynamic type.                  *)

Str(s) == [k |-> "string", v |-> s]          \* string
Num(n) == [k |-> "float64", v |-> n]         \* float64 (a JSON number)
Arr(s) == [k |-> "[]any", v |-> s]           \* []any (a JSON array)
StrSlice(s) == [k |-> "[]string", v |-> s]   \* []string (Go literals only)
Obj(m) == [k |-> "map", v |-> m]             \* map[string]any
Nil == [k |-> "nil", v |-> <<>>]             \* nil pointer / nil map
Ptr(s) == [k |-> "ptr", v |-> s]             \* non-nil *genai.Schema

EmptyMap == [z \in {} |-> z]

\* v, ok := m[key].(T): the comma-ok type assertion on a map lookup
Is(m, key, kind) == key \in DOMAIN m /\ m[key].k = kind

\* fmt.Errorf("<msg> [%s]: %w", arg, inner): an error is the chain of its
\* messages, outermost first; <<>> is the nil error
Errorf(msg, arg, inner) == <<[msg |-> msg, arg |-> arg]>> \o inner

----------------------------------------------------------------------------
(* convertJSONSchemaToGenaiSchema                                          *)

\* &genai.Schema{}
EmptySchema ==
    [Type |-> "TypeUnspecified", Description |-> "", Properties |-> Nil,
     Items |-> Nil, Required |-> <<>>, Enum |-> <<>>, Format |-> ""]

SupportedTypes == {"object", "array", "string", "number", "integer", "boolean"}

\* the switch on typeStr
GenaiType(typeStr) ==
    CASE typeStr = "object"  -> "TypeObject"
      [] typeStr = "array"   -> "TypeArray"
      [] typeStr = "string"  -> "TypeString"
      [] typeStr = "number"  -> "TypeNumber"
      [] typeStr = "integer" -> "TypeInteger"
      [] typeStr = "boolean" -> "TypeBoolean"
      [] OTHER               -> "unsupported"

\* a default branch that falls through instead of returning the error
SetTypeNoDefault(jsonSchema) ==
    IF Is(jsonSchema, "type", "string")
       /\ GenaiType(jsonSchema["type"].v) # "unsupported"
    THEN [Type |-> GenaiType(jsonSchema["type"].v), err |-> <<>>]
    ELSE [Type |-> "TypeUnspecified", err |-> <<>>]

\* "Set type": the Type the node gets and the error of the default branch
SetType(jsonSchema) ==
    IF Is(jsonSchema, "type", "string")
    THEN LET typeStr == jsonSchema["type"].v IN
         IF GenaiType(typeStr) = "unsupported"
         THEN [Type |-> "TypeUnspecified",
               err |-> Errorf("unsupported type", typeStr, <<>>)]
         ELSE [Type |-> GenaiType(typeStr), err |-> <<>>]
    ELSE [Type |-> "TypeUnspecified", err |-> <<>>]

\* "Set description" / "Set format": copied when present and a string
SetString(jsonSchema, key) ==
    IF Is(jsonSchema, key, "string") THEN jsonSchema[key].v ELSE ""

\* the loop of "Set required fields": make([]string, len(required)), then
\* the string elements are stored at their own index
CopyStrings(list) ==
    [i \in 1..Len(list) |-> IF list[i].k = "string" THEN list[i].v ELSE ""]

SetRequired(jsonSchema) ==
    IF Is(jsonSchema, "required", "[]any")
    THEN CopyStrings(jsonSchema["required"].v) ELSE <<>>

\* "Set enum values": the same loop over jsonSchema["enum"]
SetEnum(jsonSchema) ==
    IF Is(jsonSchema, "enum", "[]any")
    THEN CopyStrings(jsonSchema["enum"].v) ELSE <<>>

\* the orders in which `for key, prop := range props` may visit the keys
IterationOrders(keys) ==
    {o \in [1..Cardinality(keys) -> keys] :
        \A i, j \in DOMAIN o : i # j => o[i] # o[j]}

\* a wrapping that forgets the key
WrapPropertyNoKey(key, inner) == Errorf("failed to convert property", "", inner)

\* the error a failed property conversion is wrapped in
WrapProperty(key, inner) == Errorf("failed to convert property", key, inner)

\* the error a failed items conversion is wrapped in
WrapItems(inner) == Errorf("failed to convert items schema", "", inner)

RECURSIVE convertJSONSchemaToGenaiSchema(_)
RECURSIVE RangeProps(_, _, _, _)

\* the body of the range loop from its i-th key on, `acc` being
\* schema.Properties so far: the set of outcomes [val, err] it can end in
RangeProps(props, order, i, acc) ==
    IF i > Len(order)
    THEN {[val |-> Obj(acc), err |-> <<>>]}
    ELSE LET key == order[i]
             prop == props[key]
         IN  IF prop.k = "map"
             THEN UNION {
                    IF r.err # <<>>
                    THEN {[val |-> Nil, err |-> WrapProperty(key, r.err)]}
                    ELSE RangeProps(props, order, i + 1,
                                    (key :> r.schema.v) @@ acc)
                    : r \in convertJSONSchemaToGenaiSchema(prop.v)}
             ELSE RangeProps(props, order, i + 1, acc)

\* "Set properties for object type"
SetProperties(jsonSchema) ==
    IF Is(jsonSchema, "properties", "map")
    THEN LET props == jsonSchema["properties"].v IN
         UNION {RangeProps(props, order, 1, EmptyMap) :
                    order \in IterationOrders(DOMAIN props)}
    ELSE {[val |-> Nil, err |-> <<>>]}

\* "Set items for array type"
SetItems(jsonSchema) ==
    IF Is(jsonSchema, "items", "map")
    THEN {IF r.err # <<>>
          THEN [val |-> Nil, err |-> WrapItems(r.err)]
          ELSE [val |-> r.schema, err |-> <<>>]
          : r \in convertJSONSchemaToGenaiSchema(jsonSchema["items"].v)}
    ELSE {[val |-> Nil, err |-> <<>>]}

\* The set of (schema, error) pairs a call can return; it has more than
\* one element only where the map iteration order decides the outcome.
convertJSONSchemaToGenaiSchema(jsonSchema) ==
    LET t == SetType(jsonSchema) IN
    IF t.err # <<>>
    THEN {[schema |-> Nil, err |-> t.err]}
    ELSE UNION {
           IF p.err # <<>>
           THEN {[schema |-> Nil, err |-> p.err]}
           ELSE {IF it.err # <<>>
                 THEN [schema |-> Nil, err |-> it.err]
                 ELSE [schema |->
                         Ptr([EmptySchema EXCEPT
                              !.Type        = t.Type,
                              !.Description = SetString(jsonSchema, "description"),
                              !.Properties  = p.val,
                              !.Items       = it.val,
                              !.Required    = SetRequired(jsonSchema),
                              !.Enum        = SetEnum(jsonSchema),
                              !.Format      = SetString(jsonSchema, "format")]),
                       err |-> <<>>]
                 : it \in SetItems(jsonSchema)}
           : p \in SetProperties(jsonSchema)}

----------------------------------------------------------------------------
(* encoding/json on response texts.  A text is a sequence of characters;   *)
(* the JSON documents considered are numbers written with the digit 1 and  *)
(* arrays of at most one element, with blanks and newlines as whitespace.  *)

WhiteSpace == {" ", "\n"}

RECURSIVE SkipWS(_, _)
SkipWS(s, i) ==
    IF i <= Len(s) /\ s[i] \in WhiteSpace THEN SkipWS(s, i + 1) ELSE i

RECURSIVE ScanDigits(_, _)
ScanDigits(s, i) ==
    IF i <= Len(s) /\ s[i] = "1" THEN ScanDigits(s, i + 1) ELSE i

RECURSIVE NumberOf(_)
NumberOf(n) == IF n = 0 THEN 0 ELSE 10 * NumberOf(n - 1) + 1

ParseFail == [ok |-> FALSE, val |-> Nil, next |-> 0]

RECURSIVE ParseValue(_, _)
ParseValue(s, i) ==
    IF i > Len(s) THEN ParseFail
    ELSE IF s[i] = "1"
    THEN LET j == ScanDigits(s, i) IN
         [ok |-> TRUE, val |-> Num(NumberOf(j - i)), next |-> j]
    ELSE IF s[i] = "["
    THEN LET j == SkipWS(s, i + 1) IN
         IF j <= Len(s) /\ s[j] = "]"
         THEN [ok |-> TRUE, val |-> Arr(<<>>), next |-> j + 1]
         ELSE LET e == ParseValue(s, j)
                  n == SkipWS(s, e.next)
              IN  IF e.ok /\ n <= Len(s) /\ s[n] = "]"
                  THEN [ok |-> TRUE, val |-> Arr(<<e.val>>), next |-> n + 1]
                  ELSE ParseFail
    ELSE ParseFail

\* json.Unmarshal([]byte(text), &v) with v of type any
Unmarshal(text) ==
    LET r == ParseValue(text, SkipWS(text, 1)) IN
    IF r.ok /\ SkipWS(text, r.next) > Len(text)
    THEN [ok |-> TRUE, val |-> r.val]
    ELSE [ok |-> FALSE, val |-> Nil]

RECURSIVE Digits(_)
Digits(n) == IF n < 10 THEN <<"1">> ELSE Digits(n \div 10) \o <<"1">>

RECURSIVE Spaces(_)
Spaces(n) == IF n = 0 THEN <<>> ELSE <<" ">> \o Spaces(n - 1)

RECURSIVE Indent(_, _)
Indent(v, depth) ==
    IF v.k = "float64" THEN Digits(v.v)
    ELSE IF v.v = <<>> THEN <<"[", "]">>
    ELSE <<"[", "\n">> \o Spaces(2 * (depth + 1)) \o Indent(v.v[1], depth + 1)
         \o <<"\n">> \o Spaces(2 * depth) \o <<"]">>

\* json.MarshalIndent(v, "", "  ")
MarshalIndent(v) == [text |-> Indent(v, 0), err |-> <<>>]

----------------------------------------------------------------------------
(* The documents and responses the runs are given.                         *)

\* DefaultSchema, as the Go literal builds it: `required` is a []string
DefaultSchema ==
    [type       |-> Str("object"),
     properties |-> Obj([urls |-> Obj([type        |-> Str("array"),
                                       items       |-> Obj([type |-> Str("string")]),
                                       description |->
                                         Str("Array of job URLs extracted from the content")])]),
     required   |-> StrSlice(<<"urls">>)]

MaxDepth == 2        \* nesting depth of the schema documents
MaxLen == 3          \* length of the `required` / `enum` sequences
MaxParts == 2        \* parts in the first candidate
MaxCandidates == 2   \* candidates in a response

Leaves ==
    {EmptyMap,
     [type |-> Str("string"), format |-> Str("date"), description |-> Num(3)]}
    \cup {[type |-> t] :
            t \in {Str("string"), Str("integer"), Str("weird"), Str("odd"), Num(1)}}

Wrappers(c) ==
    {[type |-> Str("object"), properties |-> Obj([a |-> Obj(c)])],
     [type |-> Str("object"),
      properties |-> Obj([a |-> Obj(c), b |-> Obj([type |-> Str("weird")])])],
     [type |-> Str("object"), properties |-> Obj([a |-> Obj(c), b |-> Str("s")])],
     [type |-> Str("array"), items |-> Obj(c), description |-> Str("d")],
     [type |-> Str("number"), properties |-> Obj([a |-> Obj(c)])],
     [type |-> Str("boolean"), items |-> Obj(c), format |-> Num(1)],
     [properties |-> Obj([b |-> Obj(c)])]}

RECURSIVE Trees(_)
Trees(d) ==
    IF d = 0 THEN Leaves
    ELSE LET sub == Trees(d - 1) IN sub \cup UNION {Wrappers(c) : c \in sub}

SeqsUpTo(S, n) == UNION {[1..m -> S] : m \in 0..n}

ListElems == {Str("a"), Num(2), Str("b")}

ListDocs ==
    UNION {{[type |-> Str("object"), required |-> Arr(l)],
            [type |-> Str("string"), enum |-> Arr(l)]} :
              l \in SeqsUpTo(ListElems, MaxLen)}

\* what a schema file can decode to as a map[string]any
SchemaDocs == Trees(MaxDepth) \cup ListDocs

Absent == [k |-> "absent", v |-> <<>>]     \* no such file
Garbage == [k |-> "garbage", v |-> <<>>]   \* a file that is not JSON

\* DefaultSchema written out as a JSON document and decoded again
DefaultSchemaJSON == [DefaultSchema EXCEPT !.required = Arr(<<Str("urls")>>)]

\* the schema files of the end-to-end runs
SchemaFiles ==
    {Absent, Garbage, Arr(<<>>), Obj(DefaultSchemaJSON), Obj(EmptyMap),
     Obj([type |-> Str("object"),
          properties |-> Obj([name |-> Obj([type |-> Str("weird")])])]),
     Obj([type |-> Str("string"), enum |-> Arr(<<Str("a"), Num(2), Str("b")>>)])}

Text(t) == [k |-> "Text", v |-> t]     \* genai.Text
Blob == [k |-> "Blob", v |-> <<>>]     \* any other genai.Part

PartChoices ==
    {Text(<<"[">>), Text(<<"1", "]">>), Text(<<"[", " ", "1", "]">>),
     Text(<<"x">>), Blob}

OtherCandidates == {<<Text(<<"1">>)>>, <<Blob>>}

\* the responses GenerateContent can return: sequences of candidates, each
\* the sequence of its Content.Parts
Responses ==
    {<<>>} \cup
    {<<first>> \o rest :
        first \in SeqsUpTo(PartChoices, MaxParts),
        rest \in SeqsUpTo(OtherCandidates, MaxCandidates - 1)}

----------------------------------------------------------------------------
(* main and run                                                            *)

NoText == <<>>

\* a return on which the deferred close is forgotten
ReturnNoClose(e) ==
    /\ pc' = "returned"
    /\ err' = e
    /\ UNCHANGED client

\* `return err` from run: the deferred client.Close() runs once the client
\* has been acquired
Return(e) ==
    /\ pc' = "returned"
    /\ err' = e
    /\ client' = IF client = "open" THEN "closed" ELSE client

Init ==
    /\ pc = "readPrompt"
    /\ config \in [SchemaFile : {"", "schema.json"}, OutputFile : {"", "out.json"}]
    /\ schemaFile \in IF config.SchemaFile = "" THEN {Absent} ELSE SchemaFiles
    /\ outputFile \in IF config.OutputFile = "" THEN {Absent}
                      ELSE {Absent, Text(<<"o", "l", "d">>)}
    /\ schema = Nil
    /\ client = "none"
    /\ mimeType = ""
    /\ genaiSchema = Nil
    /\ responseSchema = Nil
    /\ err = <<>>
    /\ generateCalls = 0
    /\ resp = Nil
    /\ responseText = NoText
    /\ jsonResponse = Nil
    /\ formattedJSON = NoText
    /\ stdout = <<>>
    /\ exitCode = -1

\* os.ReadFile(config.PromptFile)
ReadPrompt ==
    /\ pc = "readPrompt"
    /\ \E ok \in BOOLEAN :
         IF ok THEN /\ pc' = "readInput"
                    /\ UNCHANGED <<err, client>>
               ELSE Return(Errorf("failed to read prompt file", "", <<>>))
    /\ UNCHANGED <<config, schemaFile, schema, mimeType, genaiSchema, responseSchema,
                   generateCalls, resp, responseText, jsonResponse,
                   formattedJSON, outputFile, stdout, exitCode>>

\* os.ReadFile(config.InputFile)
ReadInput ==
    /\ pc = "readInput"
    /\ \E ok \in BOOLEAN :
         IF ok THEN /\ pc' = "loadSchema"
                    /\ UNCHANGED <<err, client>>
               ELSE Return(Errorf("failed to read input file", "", <<>>))
    /\ UNCHANGED <<config, schemaFile, schema, mimeType, genaiSchema, responseSchema,
                   generateCalls, resp, responseText, jsonResponse,
                   formattedJSON, outputFile, stdout, exitCode>>

\* "Load schema": the schema file when -schema is given, DefaultSchema
\* otherwise
LoadSchema ==
    /\ pc = "loadSchema"
    /\ IF config.SchemaFile # ""
       THEN IF schemaFile.k = "absent"
            THEN /\ Return(Errorf("failed to read schema file", "", <<>>))
                 /\ UNCHANGED schema
            ELSE IF schemaFile.k # "map"
            THEN /\ Return(Errorf("failed to parse schema file", "", <<>>))
                 /\ UNCHANGED schema
            ELSE /\ schema' = schemaFile.v
                 /\ pc' = "newClient"
                 /\ UNCHANGED <<err, client>>
       ELSE /\ schema' = DefaultSchema
            /\ pc' = "newClient"
            /\ UNCHANGED <<err, client>>
    /\ UNCHANGED <<config, schemaFile, mimeType, genaiSchema, responseSchema, generateCalls,
                   resp, responseText, jsonResponse, formattedJSON, outputFile,
                   stdout, exitCode>>

\* genai.NewClient and `defer client.Close()`
NewClient ==
    /\ pc = "newClient"
    /\ \E ok \in BOOLEAN :
         IF ok THEN /\ client' = "open"
                    /\ pc' = "convert"
                    /\ UNCHANGED err
               ELSE Return(Errorf("failed to create Gemini client", "", <<>>))
    /\ UNCHANGED <<config, schemaFile, schema, mimeType, genaiSchema, responseSchema,
                   generateCalls, resp, responseText, jsonResponse,
                   formattedJSON, outputFile, stdout, exitCode>>

\* a conversion whose error is dropped
ConvertIgnoringError ==
    /\ pc = "convert"
    /\ mimeType' = "application/json"
    /\ \E r \in convertJSONSchemaToGenaiSchema(schema) :
         /\ genaiSchema' = r.schema
         /\ responseSchema' = r.schema
         /\ pc' = "generate"
         /\ UNCHANGED <<err, client>>
    /\ UNCHANGED <<config, schemaFile, schema, generateCalls, resp, responseText,
                   jsonResponse, formattedJSON, outputFile, stdout, exitCode>>

\* model.ResponseMIMEType, the schema conversion and model.ResponseSchema
Convert ==
    /\ pc = "convert"
    /\ mimeType' = "application/json"
    /\ \E r \in convertJSONSchemaToGenaiSchema(schema) :
         IF r.err # <<>>
         THEN /\ genaiSchema' = r.schema
              /\ Return(Errorf("failed to convert schema", "", r.err))
              /\ UNCHANGED responseSchema
         ELSE /\ genaiSchema' = r.schema
              /\ responseSchema' = r.schema
              /\ pc' = "generate"
              /\ UNCHANGED <<err, client>>
    /\ UNCHANGED <<config, schemaFile, schema, generateCalls, resp, responseText,
                   jsonResponse, formattedJSON, outputFile, stdout, exitCode>>

\* a generation call that is made again when it fails
GenerateRetrying ==
    /\ pc = "generate"
    /\ generateCalls' = generateCalls + 1
    /\ \/ UNCHANGED <<pc, err, client, resp>>
       \/ /\ \E candidates \in Responses : resp' = Ptr([Candidates |-> candidates])
          /\ pc' = "extract"
          /\ UNCHANGED <<err, client>>
    /\ UNCHANGED <<config, schemaFile, schema, mimeType, genaiSchema, responseSchema,
                   responseText, jsonResponse, formattedJSON, outputFile,
                   stdout, exitCode>>

\* model.GenerateContent(ctx, genai.Text(fullPrompt))
Generate ==
    /\ pc = "generate"
    /\ generateCalls' = generateCalls + 1
    /\ \/ /\ Return(Errorf("failed to generate content", "", <<>>))
          /\ UNCHANGED resp
       \/ /\ \E candidates \in Responses : resp' = Ptr([Candidates |-> candidates])
          /\ pc' = "extract"
          /\ UNCHANGED <<err, client>>
    /\ UNCHANGED <<config, schemaFile, schema, mimeType, genaiSchema, responseSchema,
                   responseText, jsonResponse, formattedJSON, outputFile,
                   stdout, exitCode>>

\* a loop that puts each text in front of what it has so far
RECURSIVE ConcatTextPartsReversed(_)
ConcatTextPartsReversed(parts) ==
    IF parts = <<>> THEN NoText
    ELSE ConcatTextPartsReversed(Tail(parts))
         \o (IF Head(parts).k = "Text" THEN Head(parts).v ELSE NoText)

\* the loop over resp.Candidates[0].Content.Parts
RECURSIVE ConcatTextParts(_)
ConcatTextParts(parts) ==
    IF parts = <<>> THEN NoText
    ELSE (IF Head(parts).k = "Text" THEN Head(parts).v ELSE NoText)
         \o ConcatTextParts(Tail(parts))

\* an extraction that takes an empty response for an empty answer
ExtractNoCheck ==
    /\ pc = "extract"
    /\ IF Len(resp.v.Candidates) = 0
       THEN /\ Return(<<>>)
            /\ UNCHANGED responseText
       ELSE /\ responseText' = ConcatTextParts(resp.v.Candidates[1])
            /\ pc' = "parse"
            /\ UNCHANGED <<err, client>>
    /\ UNCHANGED <<config, schemaFile, schema, mimeType, genaiSchema, responseSchema,
                   generateCalls, resp, jsonResponse, formattedJSON, outputFile,
                   stdout, exitCode>>

\* "Extract the response"
Extract ==
    /\ pc = "extract"
    /\ IF Len(resp.v.Candidates) = 0
       THEN /\ Return(Errorf("no response candidates received", "", <<>>))
            /\ UNCHANGED responseText
       ELSE /\ responseText' = ConcatTextParts(resp.v.Candidates[1])
            /\ pc' = "parse"
            /\ UNCHANGED <<err, client>>
    /\ UNCHANGED <<config, schemaFile, schema, mimeType, genaiSchema, responseSchema,
                   generateCalls, resp, jsonResponse, formattedJSON, outputFile,
                   stdout, exitCode>>

\* a parse step that prints the raw text before it checks it
ParseEchoing ==
    /\ pc = "parse"
    /\ stdout' = Append(stdout, responseText)
    /\ LET r == Unmarshal(responseText) IN
       IF r.ok
       THEN /\ jsonResponse' = r.val
            /\ pc' = "format"
            /\ UNCHANGED <<err, client>>
       ELSE /\ Return(Errorf("failed to parse response as JSON", "", <<>>))
            /\ UNCHANGED jsonResponse
    /\ UNCHANGED <<config, schemaFile, schema, mimeType, genaiSchema, responseSchema,
                   generateCalls, resp, responseText, formattedJSON, outputFile,
                   exitCode>>

\* a parse step that lets a text that is not JSON through as it is
ParsePassthrough ==
    /\ pc = "parse"
    /\ LET r == Unmarshal(responseText) IN
       /\ jsonResponse' = IF r.ok THEN r.val ELSE Nil
       /\ IF r.ok THEN /\ pc' = "format"
                       /\ UNCHANGED formattedJSON
                  ELSE /\ pc' = "write"
                       /\ formattedJSON' = responseText
    /\ UNCHANGED <<config, schemaFile, schema, client, mimeType, genaiSchema, responseSchema, err,
                   generateCalls, resp, responseText, outputFile, stdout,
                   exitCode>>

\* json.Unmarshal([]byte(responseText), &jsonResponse)
Parse ==
    /\ pc = "parse"
    /\ LET r == Unmarshal(responseText) IN
       IF r.ok
       THEN /\ jsonResponse' = r.val
            /\ pc' = "format"
            /\ UNCHANGED <<err, client>>
       ELSE /\ Return(Errorf("failed to parse response as JSON", "", <<>>))
            /\ UNCHANGED jsonResponse
    /\ UNCHANGED <<config, schemaFile, schema, mimeType, genaiSchema, responseSchema,
                   generateCalls, resp, responseText, formattedJSON, outputFile,
                   stdout, exitCode>>

\* json.MarshalIndent(jsonResponse, "", "  ")
Format ==
    /\ pc = "format"
    /\ LET r == MarshalIndent(jsonResponse) IN
       IF r.err # <<>>
       THEN /\ Return(Errorf("failed to format JSON response", "", r.err))
            /\ UNCHANGED formattedJSON
       ELSE /\ formattedJSON' = r.text
            /\ pc' = "write"
            /\ UNCHANGED <<err, client>>
    /\ UNCHANGED <<config, schemaFile, schema, mimeType, genaiSchema, responseSchema,
                   generateCalls, resp, responseText, jsonResponse, outputFile,
                   stdout, exitCode>>

\* a write step that prints the result whether or not it goes to a file
WriteBothSinks ==
    /\ pc = "write"
    /\ stdout' = Append(stdout, formattedJSON \o <<"\n">>)
    /\ outputFile' = IF config.OutputFile # "" THEN Text(formattedJSON) ELSE outputFile
    /\ Return(<<>>)
    /\ UNCHANGED <<config, schemaFile, schema, mimeType, genaiSchema, responseSchema,
                   generateCalls, resp, responseText, jsonResponse,
                   formattedJSON, exitCode>>

\* "Write output": os.WriteFile (which truncates, then writes) or
\* fmt.Println; a failing WriteFile leaves the file as it was, empty, or
\* partly written
Write ==
    /\ pc = "write"
    /\ IF config.OutputFile # ""
       THEN /\ \/ /\ outputFile' = Text(formattedJSON)
                  /\ Return(<<>>)
               \/ /\ outputFile' \in
                       {outputFile, Text(NoText),
                        Text(SubSeq(formattedJSON, 1, Len(formattedJSON) - 1))}
                  /\ Return(Errorf("failed to write output file", "", <<>>))
            /\ UNCHANGED stdout
       ELSE /\ stdout' = Append(stdout, formattedJSON \o <<"\n">>)
            /\ Return(<<>>)
            /\ UNCHANGED outputFile
    /\ UNCHANGED <<config, schemaFile, schema, mimeType, genaiSchema, responseSchema,
                   generateCalls, resp, responseText, jsonResponse,
                   formattedJSON, exitCode>>

\* main: os.Exit(1) when run returned an error, exit status 0 otherwise
Exit ==
    /\ pc = "returned"
    /\ pc' = "exited"
    /\ exitCode' = IF err # <<>> THEN 1 ELSE 0
    /\ UNCHANGED <<config, schemaFile, schema, client, mimeType, genaiSchema, responseSchema,
                   err, generateCalls, resp, responseText, jsonResponse,
                   formattedJSON, outputFile, stdout>>

Next ==
    \/ ReadPrompt
    \/ ReadInput
    \/ LoadSchema
    \/ NewClient
    \/ Convert
    \/ Generate
    \/ Extract
    \/ Parse
    \/ Format
    \/ Write
    \/ Exit

Spec == Init /\ [][Next]_vars

\* run is one sequential function and main exits after it: a step that can
\* be taken is taken
FairSpec == Spec /\ WF_vars(Next)

\* The conversion step on its own, for every schema document a schema file
\* can hold and for the built-in default.
InitConvert ==
    /\ pc = "convert"
    /\ \/ /\ config = [SchemaFile |-> "schema.json", OutputFile |-> ""]
          /\ schema \in SchemaDocs
          /\ schemaFile = Obj(schema)
       \/ /\ config = [SchemaFile |-> "", OutputFile |-> ""]
          /\ schema = DefaultSchema
          /\ schemaFile = Absent
    /\ outputFile = Absent
    /\ client = "open"
    /\ mimeType = ""
    /\ genaiSchema = Nil
    /\ responseSchema = Nil
    /\ err = <<>>
    /\ generateCalls = 0
    /\ resp = Nil
    /\ responseText = NoText
    /\ jsonResponse = Nil
    /\ formattedJSON = NoText
    /\ stdout = <<>>
    /\ exitCode = -1

NextConvert == Convert

SpecConvert == InitConvert /\ [][NextConvert]_vars

----------------------------------------------------------------------------
(* Properties of convertJSONSchemaToGenaiSchema, checked under SpecConvert *)

Converted == pc = "generate"                  \* the call returned a schema
ConvertFailed == pc = "returned"              \* the call returned an error
ConvertDone == Converted \/ ConvertFailed

\* the string elements of a []any, in their order
RECURSIVE StringsOf(_)
StringsOf(list) ==
    IF list = <<>> THEN <<>>
    ELSE (IF Head(list).k = "string" THEN <<Head(list).v>> ELSE <<>>)
         \o StringsOf(Tail(list))

\* the nodes of an input document: the root, the map values under a
\* `properties` map, and an `items` map, at any depth
RECURSIVE InputNodes(_)
InputNodes(js) ==
    {js}
    \cup (IF Is(js, "properties", "map")
          THEN LET props == js["properties"].v IN
               UNION {InputNodes(props[key].v) :
                        key \in {x \in DOMAIN props : props[x].k = "map"}}
          ELSE {})
    \cup (IF Is(js, "items", "map") THEN InputNodes(js["items"].v) ELSE {})

\* the unsupported type strings that occur in a document
BadTypes(js) ==
    {n["type"].v : n \in {m \in InputNodes(js) :
        Is(m, "type", "string") /\ m["type"].v \notin SupportedTypes}}

\* the nodes of a returned tree
RECURSIVE SchemaNodes(_)
SchemaNodes(s) ==
    {s}
    \cup (IF s.Properties.k = "map"
          THEN UNION {SchemaNodes(s.Properties.v[key]) :
                        key \in DOMAIN s.Properties.v}
          ELSE {})
    \cup (IF s.Items.k = "ptr" THEN SchemaNodes(s.Items.v) ELSE {})

SupportedKinds ==
    {"TypeObject", "TypeArray", "TypeString", "TypeNumber", "TypeInteger",
     "TypeBoolean"}

\* the last message of an error chain
Innermost(e) == e[Len(e)]

\* C1: a `required` (or `enum`) sequence mixing strings and non-strings
\* yields exactly the subsequence of its string elements, in order, with
\* no placeholder entries.
C1_RequiredEnumFiltered ==
    Converted =>
        /\ Is(schema, "required", "[]any") =>
             genaiSchema.v.Required = StringsOf(schema["required"].v)
        /\ Is(schema, "enum", "[]any") =>
             genaiSchema.v.Enum = StringsOf(schema["enum"].v)

\* C2 as stated: whenever a node of the input has an unsupported type
\* string, the call fails with no schema and the error reports that node's
\* type string.
C2_EveryBadTypeReported ==
    ConvertDone =>
        \A t \in BadTypes(schema) :
            /\ ConvertFailed
            /\ genaiSchema = Nil
            /\ Innermost(err) = [msg |-> "unsupported type", arg |-> t]

\* C2 as amended: whenever some node of the input has an unsupported type
\* string, the call fails with no schema (never a partial tree) and the
\* error reports the unsupported type string of one such node.
C2_SomeBadTypeReported ==
    ConvertDone /\ BadTypes(schema) # {} =>
        /\ ConvertFailed
        /\ genaiSchema = Nil
        /\ responseSchema = Nil
        /\ Innermost(err).msg = "unsupported type"
        /\ Innermost(err).arg \in BadTypes(schema)

\* two nodes with different unsupported type strings, and the call failed
C2_Witness ==
    /\ ConvertFailed
    /\ Cardinality(BadTypes(schema)) = 2
    /\ Len(err) >= 3

\* C3: every node of a returned tree has one of the six supported kinds;
\* a node without a string `type` never comes out with the unspecified
\* kind.
C3_EveryKindSupported ==
    Converted => \A n \in SchemaNodes(genaiSchema.v) : n.Type \in SupportedKinds

\* the error chain e of a call on js leads, key by key and "items" by
\* "items", from js to a node whose unsupported type string it ends with
RECURSIVE NamesPath(_, _)
NamesPath(js, e) ==
    IF e = <<>> THEN FALSE
    ELSE IF Len(e) = 1
    THEN /\ e[1].msg = "unsupported type"
         /\ Is(js, "type", "string")
         /\ js["type"].v = e[1].arg
         /\ e[1].arg \notin SupportedTypes
    ELSE IF e[1].msg = "failed to convert property"
    THEN /\ Is(js, "properties", "map")
         /\ e[1].arg \in DOMAIN js["properties"].v
         /\ js["properties"].v[e[1].arg].k = "map"
         /\ NamesPath(js["properties"].v[e[1].arg].v, Tail(e))
    ELSE IF e[1].msg = "failed to convert items schema"
    THEN /\ Is(js, "items", "map")
         /\ NamesPath(js["items"].v, Tail(e))
    ELSE FALSE

\* the keys under `properties` whose value cannot be translated
FailingKeys(js) ==
    IF Is(js, "properties", "map")
    THEN {key \in DOMAIN js["properties"].v :
            /\ js["properties"].v[key].k = "map"
            /\ BadTypes(js["properties"].v[key].v) # {}}
    ELSE {}

\* C8: when the value of a key under `properties` cannot be translated the
\* whole call fails and the error names such a key; the error of a failed
\* call names every property key, and "items" for every array level, on
\* the path from the root to the failing node.
C8_ErrorNamesPath ==
    /\ ConvertDone /\ SetType(schema).err = <<>> /\ FailingKeys(schema) # {} =>
         /\ ConvertFailed
         /\ genaiSchema = Nil
         /\ err[2].msg = "failed to convert property"
         /\ err[2].arg \in FailingKeys(schema)
    /\ ConvertFailed =>
         /\ err[1].msg = "failed to convert schema"
         /\ NamesPath(schema, Tail(err))

\* a failure two levels down, under a property and across an array
C8_Witness ==
    /\ ConvertFailed
    /\ Len(err) = 4
    /\ err[2].msg = "failed to convert property"
    /\ err[3].msg = "failed to convert items schema"
    /\ err[4].msg = "unsupported type"

\* C9: the call is deterministic: whatever order the `properties` maps are
\* iterated in, a call on the same input gives the outcome this call gave,
\* the same tree or the same error; and the input mapping is left as it
\* was.
C9_Deterministic ==
    ConvertDone =>
        /\ schema = (IF config.SchemaFile = "" THEN DefaultSchema ELSE schemaFile.v)
        /\ \A r \in convertJSONSchemaToGenaiSchema(schema) :
             /\ r.schema = genaiSchema
             /\ (IF r.err = <<>> THEN err = <<>> ELSE Tail(err) = r.err)

\* C10: in a returned tree Properties is set only on object nodes and
\* Items only on array nodes.
C10_PropertiesItemsMatchKind ==
    Converted =>
        \A n \in SchemaNodes(genaiSchema.v) :
            /\ n.Properties # Nil => n.Type = "TypeObject"
            /\ n.Items # Nil => n.Type = "TypeArray"

----------------------------------------------------------------------------
(* Properties of run, checked under Spec                                   *)

RunOver == pc \in {"returned", "exited"}

\* the run failed at the step that reports msg
FailedWith(msg) == RunOver /\ err # <<>> /\ err[1].msg = msg

\* what the output file can hold before the run
OriginalOutputs == {Absent, Text(<<"o", "l", "d">>)}

\* nothing has reached the output file or standard output
NothingWritten == stdout = <<>> /\ outputFile \in OriginalOutputs

\* `text` is what the run emitted, to the sink the flags select
Emitted(text) ==
    IF config.OutputFile = ""
    THEN stdout = <<text \o <<"\n">>>> /\ outputFile = Absent
    ELSE outputFile = Text(text) /\ stdout = <<>>

\* a response with at least one candidate arrived
Responded == resp # Nil /\ Len(resp.v.Candidates) > 0

\* C4 as stated: without -schema the run is in plain mode: a response text
\* that is not JSON does not fail the run, and what a successful run emits
\* is the response text as it came.
C4_PlainModeWithoutSchema ==
    config.SchemaFile = "" /\ RunOver /\ Responded =>
        /\ ~FailedWith("failed to parse response as JSON")
        /\ err = <<>> => Emitted(ConcatTextParts(resp.v.Candidates[1]))

\* C4 as amended: without -schema the run uses the built-in DefaultSchema
\* and works as with a schema: the provider is configured for
\* application/json with the translated default, the response text is
\* parsed as JSON and emitted re-indented, and a response text that is not
\* JSON fails the run with nothing emitted.
C4_DefaultSchemaMode ==
    config.SchemaFile = "" =>
        /\ pc \in {"newClient", "convert", "generate", "extract", "parse",
                   "format", "write"} => schema = DefaultSchema
        /\ pc \in {"generate", "extract", "parse", "format", "write"} =>
             mimeType = "application/json" /\ responseSchema # Nil
        /\ RunOver /\ Responded =>
             LET u == Unmarshal(ConcatTextParts(resp.v.Candidates[1])) IN
             IF u.ok
             THEN \/ err = <<>> /\ Emitted(MarshalIndent(u.val).text)
                  \/ FailedWith("failed to write output file")
             ELSE FailedWith("failed to parse response as JSON") /\ NothingWritten

\* a run without -schema that ended on a response text that is not JSON
C4_Witness ==
    /\ config.SchemaFile = ""
    /\ pc = "exited"
    /\ Responded
    /\ responseText = <<"x">>
    /\ exitCode = 1

\* the steps of run before "Write output" have all succeeded
AllStepsSucceeded ==
    /\ client # "none"
    /\ responseSchema # Nil
    /\ generateCalls = 1
    /\ Responded
    /\ responseText = ConcatTextParts(resp.v.Candidates[1])
    /\ Unmarshal(responseText).ok
    /\ jsonResponse = Unmarshal(responseText).val
    /\ formattedJSON = MarshalIndent(jsonResponse).text

\* C5: a run that fails at any step before the write has written nothing:
\* the output file is as it was and nothing is on standard output; output
\* exists only once every earlier step has succeeded.
C5_NoOutputOnFailure ==
    /\ RunOver /\ err # <<>> /\ ~FailedWith("failed to write output file") =>
         NothingWritten
    /\ ~NothingWritten =>
         /\ RunOver
         /\ AllStepsSucceeded
         /\ err = <<>> \/ FailedWith("failed to write output file")

\* a failed run that had an output file to overwrite and left it alone
C5_Witness ==
    /\ pc = "exited"
    /\ FailedWith("failed to parse response as JSON")
    /\ config.OutputFile # ""
    /\ outputFile = Text(<<"o", "l", "d">>)

\* C6: a response with zero candidates makes run return an error, the
\* process exits with status 1, and the output is not touched.
C6_ZeroCandidatesFails ==
    RunOver /\ resp # Nil /\ Len(resp.v.Candidates) = 0 =>
        /\ err = Errorf("no response candidates received", "", <<>>)
        /\ pc = "exited" => exitCode = 1
        /\ NothingWritten

\* the process has exited after a response without candidates
C6_Witness ==
    /\ pc = "exited"
    /\ resp # Nil
    /\ Len(resp.v.Candidates) = 0
    /\ config.OutputFile # ""

\* C7: in a run whose schema translation fails GenerateContent is never
\* invoked; whenever it has been invoked the translation had succeeded.
C7_NoGenerateAfterFailedConversion ==
    /\ (err # <<>> /\ err[1].msg = "failed to convert schema") =>
         generateCalls = 0 /\ resp = Nil
    /\ generateCalls > 0 =>
         /\ responseSchema # Nil
         /\ \A r \in convertJSONSchemaToGenaiSchema(schema) : r.err = <<>>

\* the run with "weird" on a nested property has ended
C7_Witness ==
    /\ pc = "exited"
    /\ exitCode = 1
    /\ err = <<[msg |-> "failed to convert schema", arg |-> ""],
               [msg |-> "failed to convert property", arg |-> "name"],
               [msg |-> "unsupported type", arg |-> "weird"]>>
    /\ generateCalls = 0

\* the stages of a run, in the order of the code
Rank(p) ==
    CASE p = "readPrompt" -> 1 [] p = "readInput" -> 2 [] p = "loadSchema" -> 3
      [] p = "newClient" -> 4 [] p = "convert" -> 5 [] p = "generate" -> 6
      [] p = "extract" -> 7 [] p = "parse" -> 8 [] p = "format" -> 9
      [] p = "write" -> 10 [] p = "returned" -> 11 [] p = "exited" -> 12

\* C11: a run is one linear pass: every step goes to the next stage or, on
\* failure, straight to the return with its error; no stage is entered
\* again, no stage runs after a failure, GenerateContent is invoked at
\* most once, and every run reaches its end.
C11_SingleLinearPass ==
    /\ [][/\ \/ Rank(pc') = Rank(pc) + 1
             \/ pc' = "returned" /\ Rank(pc) < Rank("returned")
          /\ generateCalls' \in {generateCalls, generateCalls + 1}
          /\ generateCalls' <= 1
          /\ generateCalls' # generateCalls => pc = "generate"
          /\ err' # <<>> => pc' \in {"returned", "exited"}
          /\ err # <<>> => err' = err /\ pc' = "exited"]_vars
    /\ <>(pc = "exited")

\* a run that passed every stage and exited with status 0
C11_Witness ==
    /\ pc = "exited"
    /\ exitCode = 0
    /\ generateCalls = 1
    /\ Responded

\* C12: a successful run has written the formatted result to exactly one
\* sink, once: with -output the file holds exactly the result (whatever it
\* held before) and nothing is on standard output; without -output
\* standard output holds the result once and no file is written.
C12_ExactlyOneSinkOnce ==
    RunOver /\ err = <<>> =>
        /\ AllStepsSucceeded
        /\ Emitted(formattedJSON)
        /\ config.OutputFile = "" => Len(stdout) = 1

\* a successful run with -output has exited
C12_Witness ==
    /\ pc = "exited"
    /\ exitCode = 0
    /\ config.OutputFile # ""
    /\ outputFile = Text(formattedJSON)
    /\ formattedJSON # NoText

\* the failures that precede the acquisition of the client
EarlyFailure ==
    \/ FailedWith("failed to read prompt file")
    \/ FailedWith("failed to read input file")
    \/ FailedWith("failed to read schema file")
    \/ FailedWith("failed to parse schema file")
    \/ FailedWith("failed to create Gemini client")

\* C13: once acquired, the client is closed on every way out of run,
\* success or failure, before the process exits; it is open only while
\* run is between the acquisition and its return.
C13_ClientReleased ==
    /\ RunOver => client # "open"
    /\ RunOver /\ ~EarlyFailure => client = "closed"
    /\ client = "open" =>
         pc \in {"convert", "generate", "extract", "parse", "format", "write"}

\* a run that held the client and failed late, at the write, has exited
C13_Witness ==
    /\ pc = "exited"
    /\ FailedWith("failed to write output file")
    /\ client = "closed"

\* the text-bearing parts of a candidate, in their order
TextPartsOf(parts) == SelectSeq(parts, LAMBDA part : part.k = "Text")

\* the texts of a sequence of text parts, joined left to right
RECURSIVE JoinTexts(_)
JoinTexts(texts) ==
    IF texts = <<>> THEN <<>>
    ELSE JoinTexts(SubSeq(texts, 1, Len(texts) - 1)) \o texts[Len(texts)].v

\* C14: the response text that is parsed and emitted is the concatenation
\* of the text parts of the first candidate, in the order returned;
\* non-text parts and the other candidates contribute nothing.
C14_FirstCandidateTexts ==
    LET expected == JoinTexts(TextPartsOf(resp.v.Candidates[1])) IN
    /\ (pc \in {"parse", "format", "write"} \/ (RunOver /\ Responded)) =>
         responseText = expected
    /\ (pc \in {"format", "write"} \/ (RunOver /\ Responded /\ err = <<>>)) =>
         jsonResponse = Unmarshal(expected).val
    /\ RunOver /\ Responded /\ err = <<>> =>
         Emitted(MarshalIndent(Unmarshal(expected).val).text)

\* a successful run on two text parts, with another candidate beside them
C14_Witness ==
    /\ pc = "exited"
    /\ exitCode = 0
    /\ resp # Nil
    /\ resp.v.Candidates =
         <<<<Text(<<"[">>), Text(<<"1", "]">>)>>, <<Text(<<"1">>)>>>>

\* C15: without -schema the schema handed to the provider is the
\* translation of DefaultSchema with nothing lost: its Required list is
\* ["urls"], and it equals the translation of the same document loaded
\* from a schema file.
C15_DefaultSchemaNothingLost ==
    config.SchemaFile = "" /\ responseSchema # Nil =>
        /\ responseSchema.v.Required = <<"urls">>
        /\ responseSchema \in
             {r.schema : r \in convertJSONSchemaToGenaiSchema(DefaultSchemaJSON)}

====
